---- MODULE Spec2Model ----
(***************************************************************************)
(* The Canvas -> Discord announcement watcher (src/discord-watcher.js).    *)
(*                                                                         *)
(* The process boots (login, channel check, optional replay, first poll,   *)
(* setInterval) and then runs poll cycles.  Every `await` on the network   *)
(* (a Canvas fetch, the Discord channel lookup, a Discord send) is a       *)
(* suspension point: the code between two of them runs as one step, and    *)
(* the interval timer may start another pollOnce while one is suspended.   *)
(*                                                                         *)
(* The earlier variant of the watcher (src/unnamed/part_000), which keeps   *)
(* its state only in ./state.json and starts polling without a channel     *)
(* check, is the specification SpecOld.                                    *)
(*                                                                         *)
(* Timestamps (ISO strings compared through new Date(..)) are instants     *)
(* 1..MaxTs; NoTs stands for null.  Announcement ids are 1..MaxId.         *)
(***************************************************************************)
EXTENDS Integers, Sequences, FiniteSets, TLC

\* ---------------------------------------------------------------- bounds
MaxId == 3
MaxTs == 2
MaxLen == 2
MaxCycles == 2
MaxReplay == 2
MaxApply == 2
MaxText == 3
MaxPages == 3
LongText == 5000

\* ----------------------------------------------------- program constants
SeenCap == 500
NoTs == 0
Epoch == 0
MAX == 2000

Ids == 1..MaxId
Instants == 1..MaxTs
Cycles == 1..MaxCycles

VARIABLES
  boot,         \* position of the boot sequence (clientReady handler)
  replayCount,  \* --replay n (0: none, or already served)
  statePath,    \* whether STATE_PATH is configured
  disk,         \* the JSON document at STATE_PATH
  state,        \* the in-memory state {lastISO, seenIds}
  feed,         \* the announcements Canvas holds, in publication order
  cyc,          \* the pollOnce activations, one record per slot
  aborted,      \* the batch of the last cycle aborted by a send failure
  rep,          \* the replayLatest activation
  applied,      \* function-level specifications: applications made so far
  call          \* function-level specifications: the function activation

vars == <<boot, replayCount, statePath, disk, state, feed, cyc, aborted, rep,
          applied, call>>

\* ------------------------------------------------------- sequence helpers
Take(s, n) == SubSeq(s, 1, IF n < Len(s) THEN n ELSE Len(s))

Reverse(s) == [i \in 1..Len(s) |-> s[Len(s) + 1 - i]]

IdsOf(s) == [i \in 1..Len(s) |-> s[i].id]

Range(s) == {s[i] : i \in 1..Len(s)}

\* Array.prototype.slice(-n): the last n elements
SliceLast(s, n) == IF Len(s) <= n THEN s ELSE SubSeq(s, Len(s) - n + 1, Len(s))

\* Array.from(new Set(s)): first occurrences, in insertion order
SetOrder(s) ==
  LET firsts == SelectSeq([i \in 1..Len(s) |-> i],
                          LAMBDA i : \A j \in 1..(i - 1) : s[j] # s[i])
  IN  [k \in 1..Len(firsts) |-> s[firsts[k]]]

\* ------------------------------------------------------------------ state
NoFile == [exists |-> FALSE, lastISO |-> NoTs, seenIds |-> <<>>]

FileOf(st) == [exists |-> TRUE, lastISO |-> st.lastISO, seenIds |-> st.seenIds]

\* a seen list at its cap: announcement 1 is the oldest entry
FullSeen == [i \in 1..SeenCap |-> IF i = 1 THEN 1 ELSE 1000 + i]

\* what an earlier run of the program may have left at STATE_PATH
FileStates == {[exists |-> TRUE, lastISO |-> 1, seenIds |-> <<1>>]}

\* readState, applied over the START_ISO default of line 42
readState(path, file, startISO) ==
  IF path /\ file.exists
    THEN [lastISO |-> file.lastISO, seenIds |-> file.seenIds]
    ELSE [lastISO |-> startISO, seenIds |-> <<>>]

\* new Date(ts || 0)
DateOf(ts) == IF ts = NoTs THEN Epoch ELSE ts

\* updateState without the slice(-500)
updateStateNoCap(st, newISO, newIds) ==
  [lastISO |-> IF newISO # NoTs
                  /\ (st.lastISO = NoTs \/ DateOf(newISO) > DateOf(st.lastISO))
                 THEN newISO ELSE st.lastISO,
   seenIds |-> SetOrder(st.seenIds \o newIds)]

\* updateState assigning newISO without comparing it with the old lastISO
updateStateUnguarded(st, newISO, newIds) ==
  [lastISO |-> IF newISO # NoTs THEN newISO ELSE st.lastISO,
   seenIds |-> SliceLast(SetOrder(st.seenIds \o newIds), SeenCap)]

\* updateState without its writeState call: the new in-memory state
updateState(st, newISO, newIds) ==
  [lastISO |-> IF newISO # NoTs
                  /\ (st.lastISO = NoTs \/ DateOf(newISO) > DateOf(st.lastISO))
                 THEN newISO ELSE st.lastISO,
   seenIds |-> SliceLast(SetOrder(st.seenIds \o newIds), SeenCap)]

\* writeState: the documents STATE_PATH may hold afterwards (a failed write
\* is swallowed and leaves the old document)
writeState(st) == IF statePath THEN {FileOf(st), disk} ELSE {disk}

\* ----------------------------------------------------------------- source
RawItems == [id : Ids, posted_at : 0..MaxTs, created_at : 0..MaxTs]

normalize(ann) ==
  [id |-> ann.id,
   ts |-> IF ann.posted_at # NoTs THEN ann.posted_at
          ELSE IF ann.created_at # NoTs THEN ann.created_at ELSE NoTs]

\* list.sort((a, b) => new Date(b.ts || 0) - new Date(a.ts || 0)): stable,
\* so the items of one instant keep their order, later instants first
RECURSIVE SortFrom(_, _)
SortFrom(l, t) ==
  IF t < Epoch THEN <<>>
  ELSE SelectSeq(l, LAMBDA a : DateOf(a.ts) = t) \o SortFrom(l, t - 1)

\* the sort with its comparator turned round: oldest first
SortOldestFirst(l) == Reverse(SortFrom(l, MaxTs))

SortNewestFirst(l) == SortFrom(l, MaxTs)

\* fetchSince applied to what getAll returned: raw.map(normalize), sorted
fetchSince(raw) == SortNewestFirst([i \in 1..Len(raw) |-> normalize(raw[i])])

\* start_date: Canvas returns the announcements posted at or after it (one
\* without a date is not filtered out)
RespectsStart(ann, startDate) ==
  normalize(ann).ts = NoTs \/ normalize(ann).ts >= startDate

\* the announcements endpoint, all pages: latest published first
Response(startDate) ==
  Reverse(SelectSeq(feed, LAMBDA ann : RespectsStart(ann, startDate)))

\* the `since` of pollOnce; every instant of the model lies in the last 7 days
Since(st) == IF st.lastISO # NoTs THEN st.lastISO ELSE NoTs

\* ----------------------------------------------------------------- filter
\* the filter with >= for >
IsNewOrEqual(a, lastISO, seenSet) ==
  (lastISO = NoTs \/ (a.ts # NoTs /\ DateOf(a.ts) >= DateOf(lastISO)))
  \/ a.id \notin seenSet

IsNew(a, lastISO, seenSet) ==
  (lastISO = NoTs \/ (a.ts # NoTs /\ DateOf(a.ts) > DateOf(lastISO)))
  \/ a.id \notin seenSet

Filter(l, lastISO, seenSet) == SelectSeq(l, LAMBDA a : IsNew(a, lastISO, seenSet))

\* ----------------------------------------------------------------- commit
\* list[0]?.ts || state.lastISO
NewestTs(l, st) == IF l # <<>> /\ l[1].ts # NoTs THEN l[1].ts ELSE st.lastISO

\* updateState(newestTs, newer.map(a => a.id))
Commit(st, l, batch) == updateState(st, NewestTs(l, st), IdsOf(batch))

\* the items sent in the order they were fetched
DeliveryOrderAsFetched(items) == items

\* items.slice().reverse()
DeliveryOrder(items) == Reverse(items)

\* list.slice(-n): the n oldest of the list
ReplaySliceOldest(l, n) == SliceLast(l, n)

\* list.slice(0, n)
ReplaySlice(l, n) == Take(l, n)

\* ------------------------------------------------------------------- init
EmptyState == [lastISO |-> NoTs, seenIds |-> <<>>]

NoBatch == [set |-> FALSE, list |-> <<>>, newer |-> <<>>]

\* no function is being exercised on its own
NoCall == [op |-> "none"]

\* A pollOnce activation.  pc: where it is suspended; read: the state as it
\* was when the activation started; since: the start_date of its request;
\* seen: new Set(state.seenIds) taken at its start; list:
\* what fetchSince returned; newer: the filtered batch; issued: the items
\* whose channel.send was started; acked: how many sends resolved; outcome:
\* how its last run ended; newISO: the newestTs its commit passed to
\* updateState; prev: the aborted batch this activation is the next cycle
\* after (until its fetch resolves).  acked, outcome and newISO stay after
\* the end of the run.
Idle(how, n, iso) ==
  [pc |-> "idle", read |-> EmptyState, since |-> NoTs, seen |-> {},
   list |-> <<>>, newer |-> <<>>,
   issued |-> <<>>, acked |-> n, outcome |-> how, newISO |-> iso,
   prev |-> NoBatch]

NoReplay == [pc |-> "idle", list |-> <<>>, issued |-> <<>>, acked |-> 0]

Init ==
  /\ boot = "login"
  /\ replayCount \in 0..MaxReplay
  /\ statePath \in BOOLEAN
  /\ disk \in IF statePath THEN {NoFile} \cup FileStates ELSE {NoFile}
  /\ \E startISO \in {NoTs} \cup Instants :
       state = readState(statePath, disk, startISO)
  /\ feed = <<>>
  /\ cyc = [c \in Cycles |-> Idle("none", 0, NoTs)]
  /\ aborted = NoBatch
  /\ rep = NoReplay
  /\ applied = 0
  /\ call = NoCall

\* ------------------------------------------------------------- poll cycle
\* pollOnce up to its first await: read the state, issue the fetch
StartCycle(c) ==
  /\ cyc' = [cyc EXCEPT ![c] =
               [pc |-> "fetching", read |-> state, since |-> Since(state),
                seen |-> Range(state.seenIds), list |-> <<>>, newer |-> <<>>,
                issued |-> <<>>, acked |-> 0, outcome |-> "none",
                newISO |-> NoTs, prev |-> aborted]]
  /\ aborted' = NoBatch

\* pollOnce settles; the boot handler, when it awaited this call, goes on to
\* setInterval
EndCycle(c, how, n, iso) ==
  /\ cyc' = [cyc EXCEPT ![c] = Idle(how, n, iso)]
  /\ boot' = IF boot = "poll0" THEN "running" ELSE boot

\* the interval timer fires
Tick(c) ==
  /\ boot = "running"
  /\ cyc[c].pc = "idle"
  /\ \A d \in Cycles : d < c => cyc[d].pc # "idle"
  /\ StartCycle(c)
  /\ UNCHANGED <<boot, replayCount, statePath, disk, state, feed, rep, applied, call>>

\* FetchFail recording the ids of the pages fetched before the failure
FetchFailRecords(c) ==
  /\ cyc[c].pc = "fetching"
  /\ EndCycle(c, "fetchfail", 0, NoTs)
  /\ state' = updateState(state, NoTs,
                          IdsOf(fetchSince(Response(cyc[c].since))))
  /\ UNCHANGED <<replayCount, statePath, disk, feed, aborted, rep, applied,
                 call>>

\* a page request, the first or a later one, answers with a non-success
\* status: getAll throws, and with it fetchSince and pollOnce
FetchFail(c) ==
  /\ cyc[c].pc = "fetching"
  /\ EndCycle(c, "fetchfail", 0, NoTs)
  /\ UNCHANGED <<replayCount, statePath, disk, state, feed, aborted, rep,
                 applied, call>>

\* FetchOk with the commit moved before the `if (newer.length)` test
FetchOkCommitAlways(c) ==
  /\ cyc[c].pc = "fetching"
  /\ LET l == fetchSince(Response(cyc[c].since))
         sel == Filter(l, state.lastISO, cyc[c].seen)
     IN  IF sel = <<>>
           THEN /\ state' = Commit(state, l, sel)
                /\ disk' \in writeState(Commit(state, l, sel))
                /\ EndCycle(c, "empty", 0, NoTs)
           ELSE /\ cyc' = [cyc EXCEPT ![c].pc = "resolving", ![c].list = l,
                                      ![c].newer = sel, ![c].prev = NoBatch]
                /\ UNCHANGED <<boot, disk, state>>
  /\ UNCHANGED <<replayCount, statePath, feed, aborted, rep, applied, call>>

\* the fetch resolves: sort, filter, and either return or call postToDiscord,
\* which suspends at client.channels.fetch
FetchOk(c) ==
  /\ cyc[c].pc = "fetching"
  /\ LET l == fetchSince(Response(cyc[c].since))
         sel == Filter(l, state.lastISO, cyc[c].seen)
     IN  IF sel = <<>>
           THEN EndCycle(c, "empty", 0, NoTs)
           ELSE /\ cyc' = [cyc EXCEPT ![c].pc = "resolving", ![c].list = l,
                                      ![c].newer = sel, ![c].prev = NoBatch]
                /\ UNCHANGED boot
  /\ UNCHANGED <<replayCount, statePath, disk, state, feed, aborted, rep,
                 applied, call>>

\* client.channels.fetch rejects
ResolveFail(c) ==
  /\ cyc[c].pc = "resolving"
  /\ EndCycle(c, "chanfail", 0, NoTs)
  /\ UNCHANGED <<replayCount, statePath, disk, state, feed, aborted, rep,
                 applied, call>>

\* the channel resolves: the loop over the reversed items starts its first
\* send
ResolveOk(c) ==
  /\ cyc[c].pc = "resolving"
  /\ cyc' = [cyc EXCEPT ![c].pc = "sending",
                        ![c].issued = <<DeliveryOrder(cyc[c].newer)[1]>>]
  /\ UNCHANGED <<boot, replayCount, statePath, disk, state, feed, aborted,
                 rep, applied, call>>

\* channel.send rejects: postToDiscord and pollOnce reject, console.error
SendFail(c) ==
  /\ cyc[c].pc = "sending"
  /\ EndCycle(c, "sendfail", cyc[c].acked, NoTs)
  /\ aborted' = [set |-> TRUE, list |-> cyc[c].list, newer |-> cyc[c].newer]
  /\ UNCHANGED <<replayCount, statePath, disk, state, feed, rep, applied, call>>

\* channel.send resolves: the next send starts, or, after the last one,
\* pollOnce commits with updateState
SendOk(c) ==
  /\ cyc[c].pc = "sending"
  /\ IF cyc[c].acked + 1 < Len(cyc[c].newer)
       THEN /\ cyc' = [cyc EXCEPT
                 ![c].acked = @ + 1,
                 ![c].issued =
                    Append(@, DeliveryOrder(cyc[c].newer)[cyc[c].acked + 2])]
            /\ UNCHANGED <<boot, disk, state>>
       ELSE /\ state' = Commit(state, cyc[c].list, cyc[c].newer)
            /\ disk' \in writeState(Commit(state, cyc[c].list, cyc[c].newer))
            /\ EndCycle(c, "committed", cyc[c].acked + 1,
                        NewestTs(cyc[c].list, state))
  /\ UNCHANGED <<replayCount, statePath, feed, aborted, rep, applied, call>>

\* ------------------------------------------------------------------ replay
\* replayLatest settles, resolved ("done") or rejected into console.error
\* ("failed")
EndReplay(how) ==
  /\ rep' = [rep EXCEPT !.pc = how]
  /\ UNCHANGED <<boot, replayCount, statePath, disk, state, feed, cyc,
                 aborted, applied, call>>

ReplayFetchFail ==
  /\ rep.pc = "fetching"
  /\ EndReplay("failed")

\* the fetch resolves: slice, and return (postToDiscord of nothing) or
\* suspend at client.channels.fetch
ReplayFetchOk ==
  /\ rep.pc = "fetching"
  /\ LET l == fetchSince(Response(NoTs)) IN
       rep' = [rep EXCEPT
                 !.pc = IF ReplaySlice(l, replayCount) = <<>>
                          THEN "done" ELSE "resolving",
                 !.list = l]
  /\ UNCHANGED <<boot, replayCount, statePath, disk, state, feed, cyc,
                 aborted, applied, call>>

ReplayResolveFail ==
  /\ rep.pc = "resolving"
  /\ EndReplay("failed")

ReplayResolveOk ==
  /\ rep.pc = "resolving"
  /\ rep' = [rep EXCEPT
       !.pc = "sending",
       !.issued = <<DeliveryOrder(ReplaySlice(rep.list, replayCount))[1]>>]
  /\ UNCHANGED <<boot, replayCount, statePath, disk, state, feed, cyc,
                 aborted, applied, call>>

ReplaySendFail ==
  /\ rep.pc = "sending"
  /\ EndReplay("failed")

ReplaySendOk ==
  /\ rep.pc = "sending"
  /\ IF rep.acked + 1 < Len(ReplaySlice(rep.list, replayCount))
       THEN rep' = [rep EXCEPT
              !.acked = @ + 1,
              !.issued = Append(@,
                 DeliveryOrder(ReplaySlice(rep.list, replayCount))[rep.acked + 2])]
       ELSE rep' = [rep EXCEPT !.acked = @ + 1, !.pc = "done"]
  /\ UNCHANGED <<boot, replayCount, statePath, disk, state, feed, cyc,
                 aborted, applied, call>>

\* the boot handler resumes after `await replayLatest(..).catch(..)` and
\* calls the first pollOnce; replayCount is not read again
AfterReplay ==
  /\ rep.pc \in {"done", "failed"}
  /\ rep' = NoReplay
  /\ replayCount' = 0
  /\ boot' = "poll0"
  /\ StartCycle(1)
  /\ UNCHANGED <<statePath, disk, state, feed, applied, call>>

\* -------------------------------------------------------------------- boot
\* client.login resolves and clientReady fires: the handler suspends at its
\* channel check
ClientReady ==
  /\ boot = "login"
  /\ boot' = "check"
  /\ UNCHANGED <<replayCount, statePath, disk, state, feed, cyc, aborted, rep,
                 applied, call>>

\* client.login rejects: nothing handles the rejection
LoginFail ==
  /\ boot = "login"
  /\ boot' = "exited"
  /\ UNCHANGED <<replayCount, statePath, disk, state, feed, cyc, aborted, rep,
                 applied, call>>

\* the channel check fails: process.exit(1)
ChannelCheckFail ==
  /\ boot = "check"
  /\ boot' = "exited"
  /\ UNCHANGED <<replayCount, statePath, disk, state, feed, cyc, aborted, rep,
                 applied, call>>

\* the channel check passes: replayLatest, or straight to the first pollOnce
ChannelCheckOk ==
  /\ boot = "check"
  /\ IF replayCount > 0
       THEN /\ boot' = "replay"
            /\ rep' = [rep EXCEPT !.pc = "fetching"]
            /\ UNCHANGED <<cyc, aborted>>
       ELSE /\ boot' = "poll0"
            /\ StartCycle(1)
            /\ UNCHANGED rep
  /\ UNCHANGED <<replayCount, statePath, disk, state, feed, applied, call>>

\* ------------------------------------------------------------ environment
\* an announcement is published on Canvas: the next id, any posting date
Publish ==
  /\ boot # "exited"
  /\ Len(feed) < MaxId
  /\ \E t \in 0..MaxTs :
       feed' = Append(feed, [id |-> Len(feed) + 1, posted_at |-> t,
                             created_at |-> t])
  /\ UNCHANGED <<boot, replayCount, statePath, disk, state, cyc, aborted, rep,
                 applied, call>>

Next ==
  \/ Publish
  \/ ClientReady
  \/ LoginFail
  \/ ChannelCheckFail
  \/ ChannelCheckOk
  \/ ReplayFetchFail
  \/ ReplayFetchOk
  \/ ReplayResolveFail
  \/ ReplayResolveOk
  \/ ReplaySendFail
  \/ ReplaySendOk
  \/ AfterReplay
  \/ \E c \in Cycles : Tick(c)
  \/ \E c \in Cycles : FetchFail(c)
  \/ \E c \in Cycles : FetchOk(c)
  \/ \E c \in Cycles : ResolveFail(c)
  \/ \E c \in Cycles : ResolveOk(c)
  \/ \E c \in Cycles : SendFail(c)
  \/ \E c \in Cycles : SendOk(c)

Spec == Init /\ [][Next]_vars

\* ------------------------------------------------- the program, scheduled
\* The program on a platform where every fetch and every send of a poll
\* cycle succeeds: the event loop runs each pending continuation (a promise
\* that is to resolve does resolve, the boot handler goes on) and
\* setInterval keeps firing.  The boot sequence and the replay may still
\* fail, as in Spec.
BootStep ==
  \/ ClientReady
  \/ LoginFail
  \/ ChannelCheckFail
  \/ ChannelCheckOk
  \/ ReplayFetchFail
  \/ ReplayFetchOk
  \/ ReplayResolveFail
  \/ ReplayResolveOk
  \/ ReplaySendFail
  \/ ReplaySendOk
  \/ AfterReplay

NextLive ==
  \/ Publish
  \/ BootStep
  \/ \E c \in Cycles : Tick(c)
  \/ \E c \in Cycles : FetchOk(c)
  \/ \E c \in Cycles : ResolveOk(c)
  \/ \E c \in Cycles : SendOk(c)

Scheduling ==
  /\ WF_vars(BootStep)
  /\ \A c \in Cycles :
       /\ WF_vars(Tick(c))
       /\ WF_vars(FetchOk(c))
       /\ WF_vars(ResolveOk(c))
       /\ WF_vars(SendOk(c))

SpecLive == Init /\ [][NextLive]_vars /\ Scheduling

\* ------------------------------------ the earlier variant (file-only state)
\* readState of the variant: the parsed file, or the empty state when the
\* file cannot be read
readStateOld(file) ==
  IF file.exists THEN [lastISO |-> file.lastISO, seenIds |-> file.seenIds]
  ELSE EmptyState

InitOld ==
  /\ boot = "login"
  /\ replayCount = 0
  /\ statePath = TRUE
  /\ disk \in {NoFile} \cup FileStates
  /\ state = EmptyState
  /\ feed = <<>>
  /\ cyc = [c \in Cycles |-> Idle("none", 0, NoTs)]
  /\ aborted = NoBatch
  /\ rep = NoReplay
  /\ applied = 0
  /\ call = NoCall

\* pollOnce up to its first await: read the file, issue the fetch
OldStartCycle(c) ==
  /\ cyc' = [cyc EXCEPT ![c] =
               [pc |-> "fetching", read |-> readStateOld(disk),
                since |-> Since(readStateOld(disk)),
                seen |-> Range(readStateOld(disk).seenIds), list |-> <<>>,
                newer |-> <<>>, issued |-> <<>>, acked |-> 0,
                outcome |-> "none", newISO |-> NoTs, prev |-> aborted]]
  /\ aborted' = NoBatch

\* clientReady: the first pollOnce is called, not awaited, and the timer is
\* registered; no channel has been looked up ("unchecked")
OldClientReady ==
  /\ boot = "login"
  /\ boot' = "unchecked"
  /\ OldStartCycle(1)
  /\ UNCHANGED <<replayCount, statePath, disk, state, feed, rep, applied, call>>

\* the interval timer fires
OldTick(c) ==
  /\ boot = "unchecked"
  /\ cyc[c].pc = "idle"
  /\ \A d \in Cycles : d < c => cyc[d].pc # "idle"
  /\ OldStartCycle(c)
  /\ UNCHANGED <<boot, replayCount, statePath, disk, state, feed, rep, applied,
                 call>>

\* the fetch resolves: sort, filter against the state read at the start,
\* return or go on to announceNewOnDiscord
OldFetchOk(c) ==
  /\ boot = "unchecked"
  /\ cyc[c].pc = "fetching"
  /\ LET l == fetchSince(Response(cyc[c].since))
         sel == Filter(l, cyc[c].read.lastISO, cyc[c].seen)
     IN  IF sel = <<>>
           THEN EndCycle(c, "empty", 0, NoTs)
           ELSE /\ cyc' = [cyc EXCEPT ![c].pc = "resolving", ![c].list = l,
                                      ![c].newer = sel, ![c].prev = NoBatch]
                /\ UNCHANGED boot
  /\ UNCHANGED <<replayCount, statePath, disk, state, feed, aborted, rep,
                 applied, call>>

\* what updateState of the variant writes: the file read afresh, updated
OldCommit(c) ==
  updateState(readStateOld(disk), NewestTs(cyc[c].list, cyc[c].read),
              IdsOf(cyc[c].newer))

\* channel.send resolves: the next send starts, or, after the last one,
\* updateState reads the file, updates and writes it
OldSendOk(c) ==
  /\ boot = "unchecked"
  /\ cyc[c].pc = "sending"
  /\ IF cyc[c].acked + 1 < Len(cyc[c].newer)
       THEN /\ cyc' = [cyc EXCEPT
                 ![c].acked = @ + 1,
                 ![c].issued =
                    Append(@, DeliveryOrder(cyc[c].newer)[cyc[c].acked + 2])]
            /\ UNCHANGED <<boot, disk>>
       ELSE /\ disk' = FileOf(OldCommit(c))
            /\ EndCycle(c, "committed", cyc[c].acked + 1,
                        NewestTs(cyc[c].list, cyc[c].read))
  /\ UNCHANGED <<replayCount, statePath, state, feed, aborted, rep, applied,
                 call>>

\* the last send resolves and fs.writeFileSync throws: updateState and
\* pollOnce throw, console.error
OldWriteFail(c) ==
  /\ boot = "unchecked"
  /\ cyc[c].pc = "sending"
  /\ cyc[c].acked + 1 = Len(cyc[c].newer)
  /\ EndCycle(c, "writefail", cyc[c].acked + 1, NoTs)
  /\ UNCHANGED <<replayCount, statePath, disk, state, feed, aborted, rep,
                 applied, call>>

NextOld ==
  \/ Publish
  \/ OldClientReady
  \/ LoginFail
  \/ \E c \in Cycles : OldTick(c)
  \/ \E c \in Cycles : FetchFail(c)
  \/ \E c \in Cycles : OldFetchOk(c)
  \/ \E c \in Cycles : ResolveFail(c)
  \/ \E c \in Cycles : ResolveOk(c)
  \/ \E c \in Cycles : SendFail(c)
  \/ \E c \in Cycles : OldSendOk(c)
  \/ \E c \in Cycles : OldWriteFail(c)

SpecOld == InitOld /\ [][NextOld]_vars

\* ------------------------------------------- the filter and the commit alone
\* The states pollOnce can find: any watermark, any short seen list, and a
\* seen list at its cap whose oldest entry is id 1.
FnStates ==
  [lastISO : {NoTs} \cup Instants,
   seenIds : {SetOrder(s) : s \in [1..MaxId -> Ids]} \cup {<<>>, FullSeen}]

\* one Canvas response: announcements with distinct ids
FnRaw ==
  UNION {{raw \in [1..n -> RawItems] :
            \A i, j \in 1..n : i # j => raw[i].id # raw[j].id} : n \in 0..MaxLen}

\* a response of SeenCap + 1 announcements, none seen before
BigRaw ==
  [i \in 1..(SeenCap + 1) |-> [id |-> 2000 + i, posted_at |-> 1, created_at |-> 1]]

FnLists == {fetchSince(raw) : raw \in FnRaw \cup {BigRaw}}

InitFn ==
  /\ boot = "running"
  /\ replayCount = 0
  /\ statePath = FALSE
  /\ disk = NoFile
  /\ state \in FnStates
  /\ feed = <<>>
  /\ cyc = [c \in Cycles |-> Idle("none", 0, NoTs)]
  /\ aborted = NoBatch
  /\ rep = NoReplay
  /\ applied = 0
  /\ call = NoCall

\* pollOnce from its start to the filter, on any fetched list; the cycle
\* before it, when it committed, stays on record in slot 2
FilterAny ==
  /\ applied < MaxApply
  /\ cyc[1].pc \in {"idle", "committed"}
  /\ applied' = applied + 1
  /\ \E l \in FnLists :
       cyc' = [cyc EXCEPT
                 ![1] =
                   [pc |-> "filtered", read |-> state, since |-> Since(state),
                    seen |-> Range(state.seenIds), list |-> l,
                    newer |-> Filter(l, state.lastISO, Range(state.seenIds)),
                    issued |-> <<>>, acked |-> 0, outcome |-> "none",
                    newISO |-> NoTs, prev |-> NoBatch],
                 ![2] = IF cyc[1].pc = "committed" THEN cyc[1] ELSE @]
  /\ UNCHANGED <<boot, replayCount, statePath, disk, state, feed, aborted, rep,
                 call>>

\* what the source can return to a request with this start_date
FromSource(l, startDate) ==
  {i \in 1..Len(l) :
     l[i].ts # NoTs /\ DateOf(l[i].ts) < DateOf(startDate)} = {}

\* the rest of that pollOnce when the batch is not empty and every send
\* resolves: the commit
CommitCycle ==
  /\ cyc[1].pc = "filtered"
  /\ cyc[1].newer # <<>>
  /\ FromSource(cyc[1].list, cyc[1].since)
  /\ state' = Commit(state, cyc[1].list, cyc[1].newer)
  /\ disk' \in writeState(Commit(state, cyc[1].list, cyc[1].newer))
  /\ cyc' = [cyc EXCEPT ![1].pc = "committed",
                        ![1].acked = Len(cyc[1].newer),
                        ![1].outcome = "committed",
                        ![1].newISO = NewestTs(cyc[1].list, state)]
  /\ UNCHANGED <<boot, replayCount, statePath, feed, aborted, rep, applied, call>>

NextFn ==
  \/ FilterAny
  \/ CommitCycle

SpecFn == InitFn /\ [][NextFn]_vars

\* ------------------------------------------------ functions on their own
\* Texts are modelled by their length (String.length); a body is the pair of
\* the number of message characters kept and whether the ellipsis follows.
Max(a, b) == IF a > b THEN a ELSE b

\* String.prototype.slice(0, end) on a text of length len
SliceTo(len, end) ==
  IF end < 0 THEN Max(len + end, 0) ELSE IF end < len THEN end ELSE len

\* new Date(ts).toISOString() with 'T' -> ' ' and 'Z' -> ' UTC', or
\* 'unknown time'
WhenLen(a) == IF a.ts # NoTs THEN 27 ELSE 12

\* `**${a.title}**\nPosted: ${when} by ${a.author}\n\n`
HeaderLen(a) == 2 + a.title + 2 + 1 + 8 + WhenLen(a) + 4 + a.author + 2

\* `\n\n<${a.url}>`
LinkLineLen(a) == 2 + 1 + a.url + 1

buildDiscordMessage(a) ==
  LET maxBody == Max(0, MAX - HeaderLen(a) - LinkLineLen(a))
      body == IF a.message > maxBody
                THEN [kept |-> SliceTo(a.message, maxBody - 1), ellipsis |-> TRUE]
                ELSE [kept |-> a.message, ellipsis |-> FALSE]
  IN  [header |-> HeaderLen(a), body |-> body, linkLine |-> LinkLineLen(a),
       length |-> HeaderLen(a) + body.kept + (IF body.ellipsis THEN 1 ELSE 0)
                    + LinkLineLen(a)]

\* canonical items as normalize makes them: title, author and url are never
\* empty, the message may be; titles are short or bring the header close to
\* MAX
BuildItems ==
  [ts : {NoTs, 1},
   title : {1} \cup {MAX - 55 + k : k \in 0..(MaxText + 3)},
   author : 1..2,
   url : 1..2,
   message : 0..MaxText \cup {LongText}]

InitCall ==
  /\ boot = "running"
  /\ replayCount = 0
  /\ statePath = FALSE
  /\ disk = NoFile
  /\ state = EmptyState
  /\ feed = <<>>
  /\ cyc = [c \in Cycles |-> Idle("none", 0, NoTs)]
  /\ aborted = NoBatch
  /\ rep = NoReplay
  /\ applied = 0
  /\ call = NoCall

\* buildDiscordMessage(a) on any canonical item
BuildMessage ==
  /\ call.op = "none"
  /\ \E a \in BuildItems :
       call' = [op |-> "build", a |-> a, out |-> buildDiscordMessage(a)]
  /\ UNCHANGED <<boot, replayCount, statePath, disk, state, feed, cyc, aborted,
                 rep, applied>>

\* fetchSince on any response of getAll: normalize and sort
SortList ==
  /\ call.op = "none"
  /\ \E raw \in FnRaw :
       call' = [op |-> "fetchSince", raw |-> raw, out |-> fetchSince(raw)]
  /\ UNCHANGED <<boot, replayCount, statePath, disk, state, feed, cyc, aborted,
                 rep, applied>>

\* A Link header is the sequence of its comma-separated parts, each a rel
\* and the page its <url> names; <<>> is a response without the header.
\* parseNextLink taking the first part whatever its rel
parseFirstLink(linkHeader) ==
  IF linkHeader = <<>> THEN 0 ELSE linkHeader[1].to

\* parseNextLink: the url of the first part with rel="next", or null (0)
parseNextLink(linkHeader) ==
  IF \E p \in 1..Len(linkHeader) : linkHeader[p].rel = "next"
    THEN linkHeader[CHOOSE p \in 1..Len(linkHeader) :
                      /\ linkHeader[p].rel = "next"
                      /\ \A q \in 1..(p - 1) : linkHeader[q].rel # "next"].to
    ELSE 0

\* the Link header of page i of k, as Canvas orders it or the other way
\* round; the last page may come without the header
LinkParts(i, k) ==
  <<[rel |-> "current", to |-> i]>>
  \o (IF i < k THEN <<[rel |-> "next", to |-> i + 1]>> ELSE <<>>)
  \o (IF i > 1 THEN <<[rel |-> "prev", to |-> i - 1]>> ELSE <<>>)
  \o <<[rel |-> "first", to |-> 1], [rel |-> "last", to |-> k]>>

Headers(i, k) ==
  {LinkParts(i, k), Reverse(LinkParts(i, k))}
  \cup (IF i = k THEN {<<>>} ELSE {})

\* page i answers with 0, 1 or 2 items, item j of page i being <<i, j>>
PagesOf(i, k) ==
  {[items |-> [j \in 1..n |-> <<i, j>>], link |-> h] :
     n \in 0..2, h \in Headers(i, k)}

\* the sources whose pages form a chain of k pages
Chains ==
  UNION {{ch \in [1..k -> UNION {PagesOf(i, k) : i \in 1..k}] :
            \A i \in 1..k : ch[i] \in PagesOf(i, k)} : k \in 1..MaxPages}

\* getAll(url) up to its first await: the request of the first page
GetAllStart ==
  /\ call.op = "none"
  /\ \E ch \in Chains :
       call' = [op |-> "getAll", pages |-> ch, next |-> 1, out |-> <<>>,
                requests |-> <<1>>, pc |-> "awaiting"]
  /\ UNCHANGED <<boot, replayCount, statePath, disk, state, feed, cyc, aborted,
                 rep, applied>>

\* the awaited page answers ok: concat its items, follow the next link or
\* return
GetAllPageOk ==
  /\ call.op = "getAll"
  /\ call.pc = "awaiting"
  /\ call.next \in 1..Len(call.pages)
  /\ Len(call.requests) <= MaxPages
  /\ LET page == call.pages[call.next]
         n == parseNextLink(page.link)
     IN  call' = [call EXCEPT
                    !.out = @ \o page.items,
                    !.next = n,
                    !.requests = IF n # 0 THEN Append(@, n) ELSE @,
                    !.pc = IF n # 0 THEN "awaiting" ELSE "returned"]
  /\ UNCHANGED <<boot, replayCount, statePath, disk, state, feed, cyc, aborted,
                 rep, applied>>

\* the awaited page answers with a non-success status: getAll throws and
\* its `out` is lost
GetAllPageFail ==
  /\ call.op = "getAll"
  /\ call.pc = "awaiting"
  /\ call' = [call EXCEPT !.pc = "thrown", !.out = <<>>]
  /\ UNCHANGED <<boot, replayCount, statePath, disk, state, feed, cyc, aborted,
                 rep, applied>>

\* What JSON.parse can make of the file at STATE_PATH: null, or an object
\* whose seenIds is an array, absent, or a number.
JsonValues ==
  {[kind |-> "null"]}
  \cup [kind : {"object"}, lastISO : {NoTs} \cup Instants,
        seenIds : {[kind |-> "array", ids |-> <<>>],
                   [kind |-> "array", ids |-> <<1>>],
                   [kind |-> "absent"],
                   [kind |-> "number"]}]

\* the conditions of the durable state file at boot
FileConds ==
  {[path |-> FALSE, content |-> "none"],
   [path |-> TRUE, content |-> "missing"],
   [path |-> TRUE, content |-> "unparsable"]}
  \cup [path : {TRUE}, content : {"json"}, value : JsonValues]

\* `let state = {lastISO: START_ISO || null, seenIds: []}` and readState():
\* the parsed document replaces the state, a read or parse error is ignored
loadState(cond, startISO) ==
  IF cond.path /\ cond.content = "json"
    THEN cond.value
    ELSE [kind |-> "object", lastISO |-> startISO,
          seenIds |-> [kind |-> "array", ids |-> <<>>]]

\* the first statements of pollOnce on that state: state.lastISO and
\* new Set(state.seenIds || [])
PollReads(st) ==
  IF st.kind = "null" THEN "TypeError"
  ELSE IF st.seenIds.kind = "number" THEN "TypeError"
  ELSE "ok"

\* the module initialisation with any file and any seed, then the start of
\* a pollOnce
BootRead ==
  /\ call.op = "none"
  /\ \E cond \in FileConds, startISO \in {NoTs} \cup Instants :
       call' = [op |-> "boot", cond |-> cond, startISO |-> startISO,
                loaded |-> loadState(cond, startISO),
                poll |-> PollReads(loadState(cond, startISO))]
  /\ UNCHANGED <<boot, replayCount, statePath, disk, state, feed, cyc, aborted,
                 rep, applied>>

NextCall ==
  \/ BootRead
  \/ BuildMessage
  \/ SortList
  \/ GetAllStart
  \/ GetAllPageOk
  \/ GetAllPageFail

SpecCall == InitCall /\ [][NextCall]_vars

\* ------------------------------------------------- properties of the watcher
Min(a, b) == IF a < b THEN a ELSE b

Running == {c \in Cycles : cyc[c].pc # "idle"}

\* the step in which activation c is aborted by a rejected send
AbortStep(c) ==
  /\ cyc[c].pc = "sending"
  /\ cyc'[c].pc = "idle"
  /\ cyc'[c].outcome = "sendfail"

\* the step in which activation c commits
CommitStep(c) ==
  /\ cyc[c].pc = "sending"
  /\ cyc'[c].pc = "idle"
  /\ cyc'[c].outcome = "committed"

\* C1: when a send of a poll cycle fails, the cycle has issued no send beyond
\* the failed one, and the state after the abort is exactly the state the
\* cycle read at its start: lastISO not advanced, no id of the batch in
\* seenIds that was not there.
C1_AbortLeavesStartState ==
  [][\A c \in Cycles :
       AbortStep(c) =>
         /\ Len(cyc[c].issued) = cyc[c].acked + 1
         /\ cyc'[c].issued = <<>>
         /\ state' = cyc[c].read]_vars

\* C2: the poll cycle that follows an aborted one, when its fetch returns the
\* list the aborted cycle fetched, selects the aborted batch again, whole
\* and in the same order.
C2_NextCycleReselects ==
  \A c \in Cycles :
    (/\ cyc[c].pc = "fetching"
     /\ cyc[c].prev.set
     /\ fetchSince(Response(cyc[c].since)) = cyc[c].prev.list)
      => Filter(cyc[c].prev.list, state.lastISO, cyc[c].seen)
           = cyc[c].prev.newer

\* C5: once lastISO is set, no step moves it backwards or unsets it,
\* whatever the interleaving of cycles, replay and failures.
C5_WatermarkMonotone ==
  [][state.lastISO # NoTs =>
       /\ state'.lastISO # NoTs
       /\ DateOf(state'.lastISO) >= DateOf(state.lastISO)]_vars

\* a commit was handed a newestTs older than the watermark, and the
\* watermark stayed
C5_Witness ==
  \E c \in Cycles :
    /\ cyc[c].outcome = "committed"
    /\ cyc[c].newISO # NoTs
    /\ DateOf(cyc[c].newISO) < DateOf(state.lastISO)

\* C7: at most one poll cycle is between its start and its end, and the
\* state a running cycle read at its start is still the current state.
C7_CyclesSerialized ==
  /\ Cardinality(Running) <= 1
  /\ \A c \in Running : state = cyc[c].read

\* C8: a cycle with a batch of k items sends them one at a time, each send
\* started only when all earlier ones have resolved, in the reverse of the
\* fetched order (oldest first), and commits after exactly k sends.
C8_SendsInOrder ==
  \A c \in Cycles :
    cyc[c].pc = "sending" =>
      /\ Len(cyc[c].issued) = cyc[c].acked + 1
      /\ Len(cyc[c].issued) <= Len(cyc[c].newer)
      /\ \A i \in 1..Len(cyc[c].issued) :
           cyc[c].issued[i] = cyc[c].newer[Len(cyc[c].newer) + 1 - i]
      /\ \A i, j \in 1..Len(cyc[c].issued) :
           i < j => DateOf(cyc[c].issued[i].ts) <= DateOf(cyc[c].issued[j].ts)

C8_CommitAfterAll ==
  \A c \in Cycles :
    CommitStep(c) =>
      /\ Len(cyc[c].issued) = Len(cyc[c].newer)
      /\ cyc'[c].acked = Len(cyc[c].newer)

C8_DeliveryOrdering == []C8_SendsInOrder /\ [][C8_CommitAfterAll]_vars

\* the second send of a batch is in flight, after an older item
C8_Witness ==
  \E c \in Cycles :
    /\ cyc[c].pc = "sending"
    /\ cyc[c].acked = 1
    /\ Len(cyc[c].newer) >= 2
    /\ DateOf(cyc[c].issued[1].ts) < DateOf(cyc[c].issued[2].ts)

\* C9: replayLatest(n) on a fetched list of m items sends the min(n, m)
\* newest, oldest of them first, whatever the watermark and the seen set,
\* and no step of it, successful or failed, changes the state or the file.
C9_ReplaySends ==
  LET k == Min(replayCount, Len(rep.list)) IN
    /\ Len(rep.issued) <= k
    /\ \A i \in 1..Len(rep.issued) : rep.issued[i] = rep.list[k + 1 - i]
    /\ rep.pc = "sending" => Len(rep.issued) = rep.acked + 1
    /\ rep.pc = "done" => Len(rep.issued) = k /\ rep.acked = k

C9_ReplayFrame == boot = "replay" => state' = state /\ disk' = disk

C9_Replay == []C9_ReplaySends /\ [][C9_ReplayFrame]_vars

\* a replay of 2 out of 3 is complete and has sent an item that the novelty
\* filter rejects
C9_Witness ==
  /\ rep.pc = "done"
  /\ rep.acked = 2
  /\ Len(rep.list) = 3
  /\ \E i \in 1..2 :
       ~IsNew(rep.issued[i], state.lastISO, Range(state.seenIds))

\* C10: a cycle whose filter selects nothing ends at that step, has sent
\* nothing, and leaves the state and the file as they are; a cycle that gets
\* to its sends has a non-empty batch.
C10_EmptyStep ==
  \A c \in Cycles :
    (/\ cyc[c].pc = "fetching"
     /\ cyc'[c].pc # "fetching"
     /\ Filter(fetchSince(Response(cyc[c].since)), state.lastISO,
               cyc[c].seen) = <<>>)
      => /\ cyc'[c].pc = "idle"
         /\ cyc'[c].issued = <<>>
         /\ cyc'[c].acked = 0
         /\ state' = state
         /\ disk' = disk

C10_SendsNeedBatch ==
  \A c \in Cycles :
    cyc[c].pc \in {"resolving", "sending"} => cyc[c].newer # <<>>

C10_EmptySelection == []C10_SendsNeedBatch /\ [][C10_EmptyStep]_vars

\* a cycle ended with nothing selected although the source has announcements
C10_Witness ==
  \E c \in Cycles :
    /\ cyc[c].outcome = "empty"
    /\ fetchSince(Response(Since(state))) # <<>>
    /\ Filter(fetchSince(Response(Since(state))), state.lastISO,
              Range(state.seenIds)) = <<>>

\* C3: the filter selects an item exactly when there is no watermark, or the
\* item has a timestamp strictly later than the watermark, or its id is not
\* in the seen set; the selection keeps the order of the fetched list.
Selected(a, st) ==
  \/ st.lastISO = NoTs
  \/ a.ts # NoTs /\ DateOf(a.ts) > DateOf(st.lastISO)
  \/ a.id \notin {st.seenIds[i] : i \in 1..Len(st.seenIds)}

C3_FilterRule ==
  cyc[1].pc = "filtered" =>
    LET l == cyc[1].list
        sel == cyc[1].newer
        kept == {i \in 1..Len(l) : Selected(l[i], state)}
        at(k) == CHOOSE i \in 1..Len(l) : l[i] = sel[k]
    IN  /\ Len(sel) = Cardinality(kept)
        /\ \A k \in 1..Len(sel) : at(k) \in kept
        /\ \A k \in 1..(Len(sel) - 1) : at(k) < at(k + 1)

\* with a watermark, an item at the watermark whose id is seen is left out
\* while a later one of the same list is selected
C3_Witness ==
  /\ cyc[1].pc = "filtered"
  /\ state.lastISO # NoTs
  /\ Len(cyc[1].list) = 2
  /\ Len(cyc[1].newer) = 1
  /\ cyc[1].newer[1] = cyc[1].list[1]
  /\ cyc[1].list[2].ts = state.lastISO

\* the newest timestamp of a fetched list, NoTs when no item has one
NewestOf(l) ==
  IF \A i \in 1..Len(l) : l[i].ts = NoTs THEN NoTs
  ELSE CHOOSE t \in {l[i].ts : i \in 1..Len(l)} :
         \A i \in 1..Len(l) : DateOf(l[i].ts) <= DateOf(t)

\* C4 (watermark): after the commit of a batch, lastISO is the newest
\* timestamp of the fetched list, or the previous lastISO when no fetched
\* item has a timestamp.
C4_CommitWatermark ==
  (cyc[1].pc = "committed" /\ Len(cyc[1].newer) <= SeenCap) =>
    state.lastISO = IF NewestOf(cyc[1].list) # NoTs
                      THEN NewestOf(cyc[1].list) ELSE cyc[1].read.lastISO

\* C4: after the commit of a batch of at most 500 items, lastISO is the
\* newest timestamp of the fetched list (or the previous lastISO) and
\* seenIds contains the id of every item of the batch, whatever the state
\* before was.
C4_CommitRecordsBatch ==
  (cyc[1].pc = "committed" /\ Len(cyc[1].newer) <= SeenCap) =>
    /\ C4_CommitWatermark
    /\ \A k \in 1..Len(cyc[1].newer) :
         \E i \in 1..Len(state.seenIds) : state.seenIds[i] = cyc[1].newer[k].id

\* C6: seenIds never holds more than 500 ids and never holds an id twice,
\* after any commit of a batch of any size.
C6_SeenBounded ==
  /\ Len(state.seenIds) <= SeenCap
  /\ Cardinality({state.seenIds[i] : i \in 1..Len(state.seenIds)})
       = Len(state.seenIds)

\* a batch larger than the cap was committed on top of a full list
C6_Witness ==
  /\ cyc[1].pc = "committed"
  /\ Len(cyc[1].newer) > SeenCap
  /\ Len(cyc[1].read.seenIds) = SeenCap
  /\ Len(state.seenIds) = SeenCap

\* the step in which the fetch of activation c fails
FetchFailStep(c) ==
  /\ cyc[c].pc = "fetching"
  /\ cyc'[c].pc = "idle"
  /\ cyc'[c].outcome = "fetchfail"

\* C11: when a page request of its fetch fails, the poll cycle ends there:
\* it has sent nothing and sends nothing, state and file are untouched, and
\* the process is running with the timer registered and a free activation,
\* so the next tick starts a new cycle.
C11_FetchFailure ==
  [][\A c \in Cycles :
       FetchFailStep(c) =>
         /\ cyc[c].issued = <<>>
         /\ cyc'[c].issued = <<>>
         /\ cyc'[c].acked = 0
         /\ state' = state
         /\ disk' = disk
         /\ boot' = "running"
         /\ \E d \in Cycles : cyc'[d].pc = "idle"]_vars

\* a fetch failed although the source had unseen announcements to return,
\* and the process runs on
C11_Witness ==
  \E c \in Cycles :
    /\ cyc[c].outcome = "fetchfail"
    /\ boot = "running"
    /\ Filter(fetchSince(Response(Since(state))), state.lastISO,
              Range(state.seenIds)) # <<>>

\* the body budget of an item: MAX less header and link line
Budget(a) == MAX - HeaderLen(a) - LinkLineLen(a)

\* C12: the payload of every canonical item is at most 2000 long, and a
\* truncated body (kept prefix plus the ellipsis) fits in the budget
\* 2000 - header - link line.
C12_PayloadFits ==
  call.op = "build" =>
    /\ call.out.length = call.out.header + call.out.body.kept
                           + (IF call.out.body.ellipsis THEN 1 ELSE 0)
                           + call.out.linkLine
    /\ call.out.length <= MAX
    /\ call.out.body.ellipsis => call.out.body.kept + 1 <= Budget(call.a)

\* C13: when the budget is zero or negative the body is empty, whatever the
\* message, and the payload is the header followed by the link line.
C13_NoBudgetNoBody ==
  (call.op = "build" /\ Budget(call.a) <= 0) =>
    /\ call.out.body.kept = 0
    /\ ~call.out.body.ellipsis
    /\ call.out.length = call.out.header + call.out.linkLine

\* C14: the list fetchSince returns holds the normalized items of the
\* response, newest timestamp first, every item without a timestamp after
\* all items with one; so its first item carries the newest timestamp of the
\* list when any item has one.
C14_SortedNewestFirst ==
  call.op = "fetchSince" =>
    LET l == call.out
        n == Len(call.raw)
    IN  /\ Len(l) = n
        /\ {l[i] : i \in 1..n} = {normalize(call.raw[i]) : i \in 1..n}
        /\ \A i, j \in 1..n :
             /\ i < j => DateOf(l[i].ts) >= DateOf(l[j].ts)
             /\ (l[i].ts = NoTs /\ l[j].ts # NoTs) => j < i
        /\ (\E i \in 1..n : l[i].ts # NoTs) =>
             /\ l[1].ts # NoTs
             /\ \A i \in 1..n : l[i].ts # NoTs => l[i].ts <= l[1].ts

\* the response had an item without any date before a dated one, and the
\* dated one comes first in the list
C14_Witness ==
  /\ call.op = "fetchSince"
  /\ Len(call.raw) = 2
  /\ call.raw[1].posted_at = NoTs
  /\ call.raw[1].created_at = NoTs
  /\ call.raw[2].posted_at = NoTs
  /\ call.raw[2].created_at # NoTs
  /\ call.out[1] = normalize(call.raw[2])
  /\ call.out[2].ts = NoTs

\* the items of the first n pages of a chain, in page order
RECURSIVE ItemsUpTo(_, _)
ItemsUpTo(ch, n) ==
  IF n = 0 THEN <<>> ELSE ItemsUpTo(ch, n - 1) \o ch[n].items

\* C19: on a chain of k pages that all answer ok, getAll requests the pages
\* 1, 2, .., k in that order, none twice and none skipped, holds the items
\* of the pages answered so far in page order, and returns, after page k
\* (the page without a next link), the concatenation of all k pages.
C19_GetAllChain ==
  (call.op = "getAll" /\ call.pc # "thrown") =>
    LET k == Len(call.pages)
        r == Len(call.requests)
    IN  /\ r <= k
        /\ call.requests = [i \in 1..r |-> i]
        /\ call.pc = "awaiting" => call.out = ItemsUpTo(call.pages, r - 1)
        /\ call.pc = "returned" =>
             /\ r = k
             /\ call.out = ItemsUpTo(call.pages, k)

\* getAll returned from a chain of three pages with items on the first and
\* the last
C19_Witness ==
  /\ call.op = "getAll"
  /\ call.pc = "returned"
  /\ Len(call.pages) = 3
  /\ Len(call.requests) = 3
  /\ call.pages[1].items # <<>>
  /\ call.pages[3].items # <<>>
  /\ call.out[Len(call.out)] = <<3, Len(call.pages[3].items)>>

\* C16: whatever the state file is at boot (not configured, missing,
\* unparsable, or JSON of any shape), the load goes through, a missing or
\* malformed file leaves the state without watermark and seen ids (but for
\* the START_ISO seed), and a poll cycle can read the loaded state.
C16_BootStateUsable ==
  call.op = "boot" =>
    /\ call.cond.content \in {"none", "missing", "unparsable"} =>
         call.loaded = [kind |-> "object", lastISO |-> call.startISO,
                        seenIds |-> [kind |-> "array", ids |-> <<>>]]
    /\ call.poll = "ok"

\* C17: an item delivered by a cycle that committed is not selected by the
\* next cycle, run after it, when the item comes back with the same
\* timestamp and its id is still in seenIds; also with no watermark and for
\* items without a timestamp.
C17_NoDuplicateDelivery ==
  (cyc[1].pc = "filtered" /\ cyc[2].pc = "committed") =>
    LET before == {cyc[2].newer[i] : i \in 1..Len(cyc[2].newer)}
        known == {state.seenIds[i] : i \in 1..Len(state.seenIds)}
        again == {k \in 1..Len(cyc[1].newer) :
                    /\ cyc[1].newer[k] \in before
                    /\ cyc[1].newer[k].id \in known}
    IN  again = {}

\* the step in which the last send of activation c resolves while the
\* state file stays as it was, without the ids of the batch: the write of
\* the commit failed
WriteFailedStep(c) ==
  /\ statePath
  /\ cyc[c].pc = "sending"
  /\ cyc[c].acked + 1 = Len(cyc[c].newer)
  /\ cyc'[c].pc = "idle"
  /\ cyc'[c].outcome # "sendfail"
  /\ disk' = disk
  /\ \E k \in 1..Len(cyc[c].newer) :
       cyc[c].newer[k].id \notin {disk.seenIds[i] : i \in 1..Len(disk.seenIds)}

\* the in-memory state holds the commit of activation c
HoldsCommit(c) ==
  /\ \A i \in 1..Len(cyc[c].list) :
       cyc[c].list[i].ts # NoTs =>
         /\ state'.lastISO # NoTs
         /\ DateOf(state'.lastISO) >= DateOf(cyc[c].list[i].ts)
  /\ \A k \in 1..Len(cyc[c].newer) :
       cyc[c].newer[k].id \in {state'.seenIds[i] : i \in 1..Len(state'.seenIds)}

\* C15: when the write of the state file fails during a commit, the cycle
\* still ends as committed, the in-memory state holds the new lastISO and
\* the ids of the batch, and a next cycle fetching the same list selects no
\* item of the batch.
C15_WriteFailureSwallowed ==
  [][\A c \in Cycles :
       WriteFailedStep(c) =>
         /\ cyc'[c].outcome = "committed"
         /\ HoldsCommit(c)
         /\ \A k \in 1..Len(cyc[c].newer) :
              ~IsNew(cyc[c].newer[k], state'.lastISO,
                     {state'.seenIds[i] : i \in 1..Len(state'.seenIds)})]_vars

\* C20: a poll cycle or a replay has started only in a process that is past
\* login and past the channel check of its boot, and a process that exited
\* at boot has started none.
C20_BootOrdering ==
  LET started == \/ rep.pc # "idle"
                 \/ \E c \in Cycles :
                      cyc[c].pc # "idle" \/ cyc[c].outcome # "none"
  IN  /\ started => boot \in {"replay", "poll0", "running"}
      /\ boot \in {"login", "check", "exited"} => ~started

\* what a poll cycle started now would select from the source as it is
Pending ==
  Filter(fetchSince(Response(Since(state))), state.lastISO,
         {state.seenIds[i] : i \in 1..Len(state.seenIds)})

\* no poll cycle is in flight
AllIdle == \A c \in Cycles : cyc[c].pc = "idle"

\* C18: when the timer keeps firing and fetches and sends succeed, every
\* item that a cycle started now would select is eventually recorded by a
\* committing cycle, and the process (unless it exited at boot) reaches a
\* point from which a cycle over the source selects nothing.
C18_EventualDelivery ==
  \/ <>(boot = "exited")
  \/ /\ \A id \in Ids :
          (AllIdle /\ \E k \in 1..Len(Pending) : Pending[k].id = id)
            ~> (id \in {state.seenIds[i] : i \in 1..Len(state.seenIds)})
     /\ <>[](Pending = <<>>)

====
